---- MODULE Spec2Model ----
(***************************************************************************)
(* A model of qp4ckagemerger.py: the merged tree built by diff from a      *)
(* source and a target directory, the status of each file, and commit's   *)
(* replay of the tree as perforce operations and local copies.            *)
(*                                                                         *)
(* A string is a sequence of one-character strings, a path a sequence of  *)
(* names (the segments between os.sep), a file's content a sequence of    *)
(* byte values.  The filesystem is a function from the paths that exist   *)
(* to what is there.                                                       *)
(***************************************************************************)
EXTENDS Integers, Sequences, FiniteSets, TLC

VARIABLES
    fs,               \* the filesystem: path -> [kind, data]
    sourceDirectory,  \* self._sourceDirectory
    targetDirectory,  \* self._targetDirectory
    client,           \* commit: the text it read from workspaceComboBox
    changelist,       \* commit: the text it read from changelistComboBox
    tree,             \* packageModel: the items in creation order
    phase,            \* which handler is running: "setup", "idle", "diff", "commit"
    walkLeft,         \* diff: the directories diff has still to add
    frames,           \* diff: the stack of addDirectoryItem calls in progress
    diffState,        \* how the last diff ended: "none", "running", "done", "rejected", "raised"
    queue,            \* commit: walk()'s deque of items
    pc,               \* commit: the position inside the loop body
    cur,              \* commit: the item of the current loop iteration
    events,           \* what the last commit that walked this model did, in order
    commitState,      \* the commits run on this model: how the last ended, how many walked
    prev,             \* what the last accepted diff replaced: the files of the model
                      \* with their status, and what the commits run on it did to each
    evalResult        \* what evaluateFileStatus returned on the probe pair

vars == <<fs, sourceDirectory, targetDirectory, client, changelist, tree, phase,
          walkLeft, frames, diffState, queue, pc, cur, events, commitState, prev,
          evalResult>>

roots == <<sourceDirectory, targetDirectory>>
identity == <<client, changelist>>

-----------------------------------------------------------------------------
(* Bounds of the model. *)

\* The number of files and empty directories the two packages are written with.
MaxEntries == 3

\* The length of a probe file's content.
MaxLen == 2

-----------------------------------------------------------------------------
(* Strings and paths. *)

SEP == "/"

SourceRoot == << <<"s">> >>
TargetRoot == << <<"t">> >>

NameA == <<"a">>
NameB == <<"b">>
NameD == <<"d">>
NamePyc == <<"c", ".", "p", "y", "c">>
Names == {NameA, NameB, NameD, NamePyc}

\* The names given inside a subdirectory of a package.
SubNames == {NameA}

PycSuffix == <<".", "p", "y", "c">>

RECURSIVE PathStr(_)
\* The string of a path: its names joined by os.sep.
PathStr(p) ==
    IF p = <<>> THEN <<>>
    ELSE IF Len(p) = 1 THEN p[1]
    ELSE p[1] \o <<SEP>> \o PathStr(Tail(p))

\* str.startswith
StartsWith(s, prefix) ==
    /\ Len(prefix) <= Len(s)
    /\ SubSeq(s, 1, Len(prefix)) = prefix

\* str.endswith
EndsWith(s, suffix) ==
    /\ Len(suffix) <= Len(s)
    /\ SubSeq(s, Len(s) - Len(suffix) + 1, Len(s)) = suffix

\* os.path.split(p)[1]
BaseName(p) == IF p = <<>> THEN <<>> ELSE p[Len(p)]

\* os.path.dirname(p)
DirName(p) == IF p = <<>> THEN <<>> ELSE SubSeq(p, 1, Len(p) - 1)

\* os.path.join(a, b) for a relative b
Join(a, b) == a \o b

Dot == << <<".">> >>
DotDot == <<".", ".">>

RECURSIVE CommonLen(_, _)
\* The number of leading names two paths share.
CommonLen(p, q) ==
    IF p = <<>> \/ q = <<>> \/ p[1] # q[1] THEN 0
    ELSE 1 + CommonLen(Tail(p), Tail(q))

\* os.path.relpath(p, start): ".." for every name of start after the common
\* part, then the rest of p; "." when nothing is left.
RelPath(p, start) ==
    LET i == CommonLen(p, start)
        ups == [k \in 1..(Len(start) - i) |-> DotDot]
        rel == ups \o SubSeq(p, i + 1, Len(p))
    IN IF rel = <<>> THEN Dot ELSE rel

-----------------------------------------------------------------------------
(* The filesystem. *)

DirEntry == [kind |-> "dir", data |-> <<>>]
FileEntry(bytes) == [kind |-> "file", data |-> bytes]

Exists(f, p) == p \in DOMAIN f
IsFile(f, p) == p \in DOMAIN f /\ f[p].kind = "file"
IsDir(f, p) == p \in DOMAIN f /\ f[p].kind = "dir"

\* os.listdir(p): the names in directory p (in no particular order).
ListDir(f, p) == {BaseName(q) : q \in {r \in DOMAIN f : r # <<>> /\ DirName(r) = p}}

Put(f, p, e) == [q \in DOMAIN f \cup {p} |-> IF q = p THEN e ELSE f[q]]
Remove(f, p) == [q \in DOMAIN f \ {p} |-> f[q]]

-----------------------------------------------------------------------------
(* Reading and comparing files (python 3). *)

\* __escapechars__: chr(1) .. chr(31)
EscapeLo == 1
EscapeHi == 31

\* A byte the text codec cannot decode; every byte below 128 decodes to the
\* character of that code.
Decodable(b) == b < 128

RECURSIVE Newlines(_)
\* Text mode's universal newlines: "\r\n" and a lone "\r" are read as "\n".
Newlines(s) ==
    IF s = <<>> THEN <<>>
    ELSE IF s[1] = 13
         THEN IF Len(s) >= 2 /\ s[2] = 10
              THEN <<10>> \o Newlines(SubSeq(s, 3, Len(s)))
              ELSE <<10>> \o Newlines(Tail(s))
         ELSE <<s[1]>> \o Newlines(Tail(s))

\* open(p, 'r').read(): "ok" with the text, "decode" for a UnicodeDecodeError,
\* "oserror" when p is missing or a directory.
ReadText(f, p) ==
    IF ~IsFile(f, p) THEN [res |-> "oserror", text |-> <<>>]
    ELSE IF \E i \in 1..Len(f[p].data) : ~Decodable(f[p].data[i])
         THEN [res |-> "decode", text |-> <<>>]
         ELSE [res |-> "ok", text |-> Newlines(f[p].data)]

\* A variant that takes NUL for an escape character too.
IsControlChar(c) == c <= EscapeHi

IsEscapeChar(c) == EscapeLo <= c /\ c <= EscapeHi

RECURSIVE removeEscapeChars(_)
removeEscapeChars(string) ==
    IF string = <<>> THEN <<>>
    ELSE IF IsEscapeChar(string[1]) THEN removeEscapeChars(Tail(string))
    ELSE <<string[1]>> \o removeEscapeChars(Tail(string))

\* A variant without the except clause: a UnicodeDecodeError leaves it too.
isIdenticalUncaught(f, sourcePath, targetPath) ==
    LET s == ReadText(f, sourcePath)
        t == ReadText(f, targetPath)
    IN IF s.res # "ok" \/ t.res # "ok" THEN "raise"
       ELSE IF removeEscapeChars(s.text) = removeEscapeChars(t.text) THEN "true"
       ELSE "false"

\* "true", "false", or "raise" when an error other than UnicodeDecodeError
\* leaves the try block.  Both files are opened before either is read.
isIdentical(f, sourcePath, targetPath) ==
    LET s == ReadText(f, sourcePath)
        t == ReadText(f, targetPath)
    IN IF s.res = "oserror" \/ t.res = "oserror" THEN "raise"
       ELSE IF s.res = "decode" \/ t.res = "decode" THEN "false"
       ELSE IF removeEscapeChars(s.text) = removeEscapeChars(t.text) THEN "true"
       ELSE "false"

\* The status of a pair of paths, or "raise".
evaluateFileStatus(f, sourcePath, targetPath) ==
    IF Exists(f, sourcePath)
    THEN IF Exists(f, targetPath)
         THEN CASE isIdentical(f, sourcePath, targetPath) = "true" -> "Unchanged"
                [] isIdentical(f, sourcePath, targetPath) = "false" -> "Edit"
                [] OTHER -> "raise"
         ELSE "Delete"
    ELSE "Add"

-----------------------------------------------------------------------------
(* The item model.  An item is a record; tree holds the items in the order *)
(* they were appended, so the rows of a parent are its items in that order. *)
(* parent = 0 is the model's invisible root item.                          *)

DirectoryItem(name, parent) ==
    [name |-> name, kind |-> "dir", parent |-> parent,
     sourcePath |-> <<>>, targetPath |-> <<>>, status |-> "none"]

\* QDepotItem(sourcePath, targetPath) with the status already evaluated.
DepotItem(sourcePath, targetPath, status, parent) ==
    [name |-> BaseName(sourcePath), kind |-> "file", parent |-> parent,
     sourcePath |-> sourcePath, targetPath |-> targetPath, status |-> status]

\* iterItems(item): the rows of an item, in row order.
iterItems(tr, item) ==
    SelectSeq([i \in 1..Len(tr) |-> i], LAMBDA i : tr[i].parent = item)

topLevelItems(tr) == iterItems(tr, 0)

\* A variant that finds no row.
findChildByNameNone(tr, parent, name) == 0

\* findChildByName(parent, name): the first row with that text, 0 for None.
findChildByName(tr, parent, name) ==
    LET rows == SelectSeq(iterItems(tr, parent), LAMBDA i : tr[i].name = name)
    IN IF Len(rows) > 0 THEN rows[1] ELSE 0

RECURSIVE Split(_)
\* str.split(os.sep)
Split(s) ==
    IF \A i \in 1..Len(s) : s[i] # SEP THEN <<s>>
    ELSE LET k == CHOOSE i \in 1..Len(s) :
                     s[i] = SEP /\ \A j \in 1..(i - 1) : s[j] # SEP
         IN <<SubSeq(s, 1, k - 1)>> \o Split(SubSeq(s, k + 1, Len(s)))

RECURSIVE FindFrom(_, _, _)
\* The loop of findChildByPath: item 0 is None, and looking for a row of
\* None raises.
FindFrom(tr, item, names) ==
    IF names = <<>> THEN [raised |-> FALSE, item |-> item]
    ELSE IF item = 0 THEN [raised |-> TRUE, item |-> 0]
    ELSE FindFrom(tr, findChildByName(tr, item, names[1]), Tail(names))

\* findChildByPath(path) for the string of a relative path; topLevelItem()
\* raises on an empty model.
findChildByPath(tr, path) ==
    IF topLevelItems(tr) = <<>> THEN [raised |-> TRUE, item |-> 0]
    ELSE IF path = <<".">> THEN [raised |-> FALSE, item |-> topLevelItems(tr)[1]]
    ELSE FindFrom(tr, topLevelItems(tr)[1], Split(path))

isSourceFile(filePath) == StartsWith(PathStr(filePath), PathStr(sourceDirectory))

isTargetFile(filePath) == StartsWith(PathStr(filePath), PathStr(targetDirectory))

\* The relative path, as a path.
makePathRelative(filePath) ==
    IF isSourceFile(filePath) THEN RelPath(filePath, sourceDirectory)
    ELSE RelPath(filePath, targetDirectory)

\* addFileItem(filePath, parent): the model after the call, or raised.
addFileItem(tr, f, filePath, parent) ==
    LET relativePath == makePathRelative(filePath)
        found == findChildByPath(tr, PathStr(relativePath))
        sourcePath == IF isSourceFile(filePath) THEN filePath
                      ELSE Join(sourceDirectory, relativePath)
        targetPath == IF isSourceFile(filePath) THEN Join(targetDirectory, relativePath)
                      ELSE filePath
        status == evaluateFileStatus(f, sourcePath, targetPath)
    IN IF found.raised THEN [raised |-> TRUE, tree |-> tr]
       ELSE IF found.item # 0 THEN [raised |-> FALSE, tree |-> tr]
       ELSE IF status = "raise" \/ parent = 0 THEN [raised |-> TRUE, tree |-> tr]
       ELSE [raised |-> FALSE,
             tree |-> Append(tr, DepotItem(sourcePath, targetPath, status, parent))]

\* The first half of addDirectoryItem(directory, parent), up to the loop:
\* the model after it and the item whose rows the loop adds, or raised.
\* parent = 0 stands for parent=None.
enterDirectory(tr, directory, parent) ==
    LET relativePath == makePathRelative(directory)
        found == findChildByPath(tr, PathStr(relativePath))
    IN IF found.raised THEN [raised |-> TRUE, tree |-> tr, item |-> 0]
       ELSE IF found.item # 0 THEN [raised |-> FALSE, tree |-> tr, item |-> found.item]
       ELSE IF parent = 0 THEN [raised |-> TRUE, tree |-> tr, item |-> 0]
       ELSE [raised |-> FALSE,
             tree |-> Append(tr, DirectoryItem(BaseName(directory), parent)),
             item |-> Len(tr) + 1]

\* The relative path of an item: the names from below the top level item.
RECURSIVE ItemPath(_, _)
ItemPath(tr, i) ==
    IF i = 0 \/ tr[i].parent = 0 THEN <<>>
    ELSE Append(ItemPath(tr, tr[i].parent), tr[i].name)

-----------------------------------------------------------------------------
(* The initial state and the environment: the two packages on disk. *)

\* The contents of the files of the packages: two texts, and bytes that do
\* not decode.
Contents == {<<120>>, <<121>>, <<129>>}

RootKinds == {"dir", "file", "absent"}

RootFS(sk, tk) ==
    LET there == (IF sk = "absent" THEN {} ELSE {SourceRoot})
                 \cup (IF tk = "absent" THEN {} ELSE {TargetRoot})
    IN [p \in there |->
            IF (p = SourceRoot /\ sk = "dir") \/ (p = TargetRoot /\ tk = "dir")
            THEN DirEntry ELSE FileEntry(<<>>)]

NoCommit == [state |-> "none", runs |-> "none"]

\* prev is kept from the diff that replaces a model until a commit walks
\* the new one.
NoPrev == [diffState |-> "none", commit |-> NoCommit, plan |-> {}]

Init ==
    /\ \E sk \in RootKinds, tk \in RootKinds : fs = RootFS(sk, tk)
    /\ sourceDirectory = SourceRoot
    /\ targetDirectory = TargetRoot
    /\ client = ""
    /\ changelist = ""
    /\ tree = <<>>
    /\ phase = "setup"
    /\ walkLeft = <<>>
    /\ frames = <<>>
    /\ diffState = "none"
    /\ queue = <<>>
    /\ pc = "walk"
    /\ cur = 0
    /\ events = <<>>
    /\ commitState = NoCommit
    /\ prev = NoPrev
    /\ evalResult = "none"

\* The relative paths the packages are written at: in a package, or in a
\* subdirectory of it.
RelPaths == {<<n>> : n \in Names} \cup {<<n, m>> : n \in {NameA, NameD}, m \in SubNames}

\* What is written at a relative path: the compiled file is a file of bytes
\* that do not decode, d a directory, a a directory or a file of any of the
\* contents, anything else a file of one text.
Entries(r) ==
    IF r = <<NamePyc>> THEN {FileEntry(<<129>>)}
    ELSE IF r = <<NameD>> THEN {DirEntry}
    ELSE IF r = <<NameA>> THEN {DirEntry} \cup {FileEntry(c) : c \in Contents}
    ELSE {FileEntry(<<120>>)}

\* The files and the empty directories below the two roots: what the
\* packages have to be written with, the other directories being on the way.
Leaves(f) ==
    {p \in DOMAIN f \ {sourceDirectory, targetDirectory} : ListDir(f, p) = {}}

\* What a path with its missing directories is created from.
Created(f, p, e) ==
    [q \in DOMAIN f \cup {SubSeq(p, 1, k) : k \in 1..Len(p)} |->
        IF q \in DOMAIN f THEN f[q] ELSE IF q = p THEN e ELSE DirEntry]

\* The packages are written before the tool is used: a file or a directory
\* is created in one of the packages, with the directories on its way.
CreateEntry ==
    /\ phase = "setup"
    /\ \E root \in {sourceDirectory, targetDirectory}, r \in RelPaths :
       \E e \in Entries(r) :
          /\ IsDir(fs, root)
          /\ ~Exists(fs, Join(root, r))
          /\ \A k \in 1..(Len(r) - 1) : ~IsFile(fs, Join(root, SubSeq(r, 1, k)))
          /\ Cardinality(Leaves(Created(fs, Join(root, r), e))) <= MaxEntries
          /\ fs' = Created(fs, Join(root, r), e)
    /\ UNCHANGED <<roots, identity, tree, phase, walkLeft, frames,
                   diffState, queue, pc, cur, events, commitState, prev, evalResult>>

Workspaces == {"", "ws"}
Changelists == {"", "default"}

\* The window is shown and the packages are chosen.
Show ==
    /\ phase = "setup"
    /\ phase' = "idle"
    /\ UNCHANGED <<fs, roots, identity, tree, walkLeft, frames,
                   diffState, queue, pc, cur, events, commitState, prev, evalResult>>

-----------------------------------------------------------------------------
(* diff: one action per call or loop iteration of diff, addDirectoryItem   *)
(* and addFileItem.                                                         *)

commitVars == <<queue, pc, cur, events>>

Files(tr) == {i \in 1..Len(tr) : tr[i].kind = "file"}

\* What a commit's events say of one item: "applied" when every step of its
\* operation succeeded, "failed" when its backend call raised, "raised" when
\* its copy raised, "pending" when the walk did not come to it or stopped
\* inside it.
Outcome(tr, ev, i) ==
    LET mine(op, ok) == \E k \in 1..Len(ev) :
                            ev[k].item = i /\ ev[k].op = op /\ ev[k].ok = ok
    IN IF mine("edit", FALSE) \/ mine("add", FALSE) \/ mine("delete", FALSE) THEN "failed"
       ELSE IF mine("copy", FALSE) THEN "raised"
       ELSE IF \/ tr[i].status = "Edit" /\ mine("edit", TRUE) /\ mine("copy", TRUE)
               \/ tr[i].status = "Add" /\ mine("copy", TRUE) /\ mine("add", TRUE)
               \/ tr[i].status = "Delete" /\ mine("delete", TRUE)
            THEN "applied"
       ELSE "pending"

\* The files of a model: relative path, status, and what the commit did.
Plan(tr, ev) ==
    {[path |-> ItemPath(tr, i), status |-> tr[i].status, outcome |-> Outcome(tr, ev, i)] :
        i \in Files(tr)}

\* A variant that looks at the source directory only.
DiffGuardSourceOnly == IsDir(fs, sourceDirectory)

\* The guard of diff: both packages are directories.
DiffGuard == IsDir(fs, sourceDirectory) /\ IsDir(fs, targetDirectory)

\* diff's guard fails: a warning is logged and nothing else happens.
DiffReject ==
    /\ phase = "idle"
    /\ ~DiffGuard
    /\ diffState' = "rejected"
    /\ UNCHANGED <<fs, roots, identity, tree, phase, walkLeft, frames,
                   commitState, prev, evalResult>>
    /\ UNCHANGED commitVars

\* diff resets the model and appends the top level item.
DiffBegin ==
    /\ phase = "idle"
    /\ DiffGuard
    /\ prev' = [diffState |-> diffState, commit |-> commitState,
                 plan |-> Plan(tree, events)]
    /\ events' = <<>>
    /\ tree' = <<DirectoryItem(BaseName(sourceDirectory), 0)>>
    /\ walkLeft' = <<sourceDirectory, targetDirectory>>
    /\ frames' = <<>>
    /\ phase' = "diff"
    /\ diffState' = "running"
    /\ commitState' = NoCommit
    /\ UNCHANGED <<fs, roots, identity, evalResult, queue, pc, cur>>

\* An exception leaves diff: the model stays as built so far.
DiffRaise ==
    /\ phase' = "idle"
    /\ diffState' = "raised"
    /\ walkLeft' = <<>>
    /\ frames' = <<>>

\* The frame of the running addDirectoryItem with one name taken off its listing.
Taken(frame, name) == [frame EXCEPT !.pending = @ \ {name}]

RECURSIVE Unwind(_)
\* The calls of addDirectoryItem whose loop has ended return.
Unwind(stack) ==
    IF stack = <<>> THEN <<>>
    ELSE IF Head(stack).pending = {} THEN Unwind(Tail(stack))
    ELSE stack

\* diff calls addDirectoryItem on the next of the two directories.
DiffAddRoot ==
    /\ phase = "diff"
    /\ frames = <<>>
    /\ walkLeft # <<>>
    /\ LET r == enterDirectory(tree, Head(walkLeft), 0)
       IN IF r.raised
          THEN DiffRaise /\ UNCHANGED tree
          ELSE /\ tree' = r.tree
               /\ frames' = Unwind(<<[directory |-> Head(walkLeft), item |-> r.item,
                                      pending |-> ListDir(fs, Head(walkLeft))]>>)
               /\ walkLeft' = Tail(walkLeft)
               /\ UNCHANGED <<phase, diffState>>
    /\ UNCHANGED <<fs, roots, identity, commitState, prev, evalResult>>
    /\ UNCHANGED commitVars

\* The loop of addDirectoryItem comes to a file that is not compiled python.
DiffAddFile ==
    /\ phase = "diff"
    /\ frames # <<>>
    /\ \E filename \in Head(frames).pending :
          LET filePath == Append(Head(frames).directory, filename)
              r == addFileItem(tree, fs, filePath, Head(frames).item)
          IN /\ IsFile(fs, filePath)
             /\ ~EndsWith(PathStr(filePath), PycSuffix)
             /\ IF r.raised
                THEN DiffRaise /\ UNCHANGED tree
                ELSE /\ tree' = r.tree
                     /\ frames' = Unwind(<<Taken(Head(frames), filename)>> \o Tail(frames))
                     /\ UNCHANGED <<phase, diffState, walkLeft>>
    /\ UNCHANGED <<fs, roots, identity, commitState, prev, evalResult>>
    /\ UNCHANGED commitVars

\* The loop of addDirectoryItem comes to a directory and calls itself.
DiffAddDirectory ==
    /\ phase = "diff"
    /\ frames # <<>>
    /\ \E filename \in Head(frames).pending :
          LET filePath == Append(Head(frames).directory, filename)
              r == enterDirectory(tree, filePath, Head(frames).item)
          IN /\ ~(IsFile(fs, filePath) /\ ~EndsWith(PathStr(filePath), PycSuffix))
             /\ IsDir(fs, filePath)
             /\ IF r.raised
                THEN DiffRaise /\ UNCHANGED tree
                ELSE /\ tree' = r.tree
                     /\ frames' = Unwind(<<[directory |-> filePath, item |-> r.item,
                                            pending |-> ListDir(fs, filePath)],
                                           Taken(Head(frames), filename)>> \o Tail(frames))
                     /\ UNCHANGED <<phase, diffState, walkLeft>>
    /\ UNCHANGED <<fs, roots, identity, commitState, prev, evalResult>>
    /\ UNCHANGED commitVars

\* The loop of addDirectoryItem skips anything else.
DiffSkip ==
    /\ phase = "diff"
    /\ frames # <<>>
    /\ \E filename \in Head(frames).pending :
          LET filePath == Append(Head(frames).directory, filename)
          IN /\ ~(IsFile(fs, filePath) /\ ~EndsWith(PathStr(filePath), PycSuffix))
             /\ ~IsDir(fs, filePath)
             /\ frames' = Unwind(<<Taken(Head(frames), filename)>> \o Tail(frames))
    /\ UNCHANGED <<fs, roots, identity, tree, phase, walkLeft,
                   diffState, commitState, prev, evalResult>>
    /\ UNCHANGED commitVars

\* Both directories are added: diff expands the view and returns.
DiffFinish ==
    /\ phase = "diff"
    /\ frames = <<>>
    /\ walkLeft = <<>>
    /\ phase' = "idle"
    /\ diffState' = "done"
    /\ UNCHANGED <<fs, roots, identity, tree, walkLeft, frames,
                   commitState, prev, evalResult>>
    /\ UNCHANGED commitVars

DiffNext ==
    \/ DiffReject
    \/ DiffBegin
    \/ DiffAddRoot
    \/ DiffAddFile
    \/ DiffAddDirectory
    \/ DiffSkip
    \/ DiffFinish

-----------------------------------------------------------------------------
(* addDirectoryItem and walk() run to their end, as operators. *)

\* A listing picked for a set of names: os.listdir gives them in some order.
RECURSIVE Listing(_)
Listing(names) ==
    IF names = {} THEN <<>>
    ELSE LET n == CHOOSE x \in names : TRUE
         IN <<n>> \o Listing(names \ {n})

RECURSIVE addDirectoryItem(_, _, _, _)
RECURSIVE AddEntries(_, _, _, _, _)

\* The loop of addDirectoryItem over a listing; acc is the model so far, or
\* raised.
AddEntries(acc, f, directory, item, listing) ==
    IF acc.raised \/ listing = <<>> THEN acc
    ELSE LET filePath == Append(directory, Head(listing))
             step == IF IsFile(f, filePath) /\ ~EndsWith(PathStr(filePath), PycSuffix)
                     THEN addFileItem(acc.tree, f, filePath, item)
                     ELSE IF IsDir(f, filePath)
                     THEN addDirectoryItem(acc, f, filePath, item)
                     ELSE acc
         IN AddEntries([raised |-> step.raised, tree |-> step.tree],
                       f, directory, item, Tail(listing))

\* addDirectoryItem(directory, parent) with its recursion.
addDirectoryItem(acc, f, directory, parent) ==
    IF acc.raised THEN acc
    ELSE LET r == enterDirectory(acc.tree, directory, parent)
         IN IF r.raised THEN [raised |-> TRUE, tree |-> r.tree]
            ELSE AddEntries([raised |-> FALSE, tree |-> r.tree], f, directory, r.item,
                            Listing(ListDir(f, directory)))

\* The body of diff past its guard, the two directories added in the order
\* given.
DiffWalk(f, order) ==
    LET top == [raised |-> FALSE,
                tree |-> <<DirectoryItem(BaseName(sourceDirectory), 0)>>]
        first == addDirectoryItem(top, f, order[1], 0)
    IN addDirectoryItem(first, f, order[2], 0)

RECURSIVE WalkFrom(_, _)
\* walk(): the queue is popped at the front and the rows of the popped item
\* are appended.
WalkFrom(tr, q) ==
    IF q = <<>> THEN <<>>
    ELSE <<Head(q)>> \o WalkFrom(tr, Tail(q) \o iterItems(tr, Head(q)))

walk(tr) ==
    IF topLevelItems(tr) = <<>> THEN <<>> ELSE WalkFrom(tr, <<topLevelItems(tr)[1]>>)

-----------------------------------------------------------------------------
(* commit's effects on the disk and on the depot. *)

\* A variant that writes nothing.
CopyNothing(f, src, dst) == [raised |-> FALSE, fs |-> f]

\* shutil.copy(src, dst): the bytes of src written to dst, or to dst/name of
\* src when dst is a directory; raised when src is no file or the place
\* written to is not in an existing directory.
Copy(f, src, dst) ==
    LET to == IF IsDir(f, dst) THEN Append(dst, BaseName(src)) ELSE dst
    IN IF ~IsFile(f, src) \/ ~IsDir(f, DirName(to)) \/ IsDir(f, to)
       THEN [raised |-> TRUE, fs |-> f]
       ELSE [raised |-> FALSE, fs |-> Put(f, to, FileEntry(f[src].data))]

\* The directories os.makedirs(directory) has to create.
Missing(f, directory) ==
    {SubSeq(directory, 1, k) : k \in 1..Len(directory)} \ DOMAIN f

\* makeDirectories(directory): os.makedirs with its OSError swallowed.  It
\* fails when the directory exists, when a name on the way is a file, and
\* when the system refuses (allowed = FALSE); then nothing is created.
makeDirectories(f, directory, allowed) ==
    IF Exists(f, directory) \/ ~allowed
       \/ \E k \in 1..Len(directory) : IsFile(f, SubSeq(directory, 1, k))
    THEN f
    ELSE [q \in DOMAIN f \cup Missing(f, directory) |->
              IF q \in DOMAIN f THEN f[q] ELSE DirEntry]

\* A successful cmds.delete: the depot client removes the file from the
\* workspace (the removal is the backend's, nothing is removed locally).
BackendDelete(f, path) == IF IsFile(f, path) THEN Remove(f, path) ELSE f

-----------------------------------------------------------------------------
(* commit: one action per step of the loop over walk().  A backend call   *)
(* (cmds.edit, cmds.add, cmds.delete) either succeeds or raises.           *)

Event(op, item, ok) == [op |-> op, item |-> item, ok |-> ok]

\* A backend call that fails raises (its error is not a return value).
BackendRaises(ok) == ~ok

\* A variant that opens an Unchanged file for edit too.
OperationEager(tr, item) ==
    IF tr[item].kind # "file" THEN "none"
    ELSE CASE tr[item].status \in {"Edit", "Unchanged"} -> "edit"
           [] tr[item].status = "Add" -> "add"
           [] tr[item].status = "Delete" -> "delete"
           [] OTHER -> "none"

\* What the loop body does with an item: nothing for an item that is no
\* QDepotItem, else by its status.
Operation(tr, item) ==
    IF tr[item].kind # "file" THEN "none"
    ELSE CASE tr[item].status = "Edit" -> "edit"
           [] tr[item].status = "Add" -> "add"
           [] tr[item].status = "Delete" -> "delete"
           [] OTHER -> "none"

\* A variant that looks at the workspace only.
CommitGuardClientOnly == client # ""

\* The guard of commit: both combo boxes hold text.
CommitGuard == client # "" /\ changelist # ""

\* How many walks this model has seen once another begins: "again" is the
\* second walk of a model whose first walk ran to its end.
Ran(c) ==
    IF c.runs = "none" THEN "once"
    ELSE IF c.runs = "once" /\ c.state = "completed" THEN "again"
    ELSE "many"

\* commit reads the user input: what the combo boxes hold (a box is empty
\* when no workspace or changelist was found).
CommitRead ==
    /\ phase = "idle"
    /\ phase' = "commit"
    /\ pc' = "guard"
    /\ client' \in Workspaces
    /\ changelist' \in Changelists
    /\ UNCHANGED <<fs, roots, tree, walkLeft, frames, diffState, queue, cur, events,
                   commitState, prev, evalResult>>

\* commit returns after its warning box.
CommitReject ==
    /\ phase = "commit"
    /\ pc = "guard"
    /\ ~CommitGuard
    /\ phase' = "idle"
    /\ pc' = "walk"
    /\ client' = ""
    /\ changelist' = ""
    /\ UNCHANGED <<fs, roots, tree, walkLeft, frames, diffState, queue, cur, events,
                   commitState, prev, evalResult>>

\* commit passes its guard and asks walk() for the first item; on an empty
\* model topLevelItem() raises.
CommitBegin ==
    /\ phase = "commit"
    /\ pc = "guard"
    /\ CommitGuard
    /\ events' = <<>>
    /\ prev' = NoPrev
    /\ pc' = "walk"
    /\ IF topLevelItems(tree) = <<>>
       THEN /\ commitState' = [state |-> "raised", runs |-> Ran(commitState)]
            /\ phase' = "idle"
            /\ client' = ""
            /\ changelist' = ""
            /\ UNCHANGED queue
       ELSE /\ commitState' = [state |-> "running", runs |-> Ran(commitState)]
            /\ queue' = <<topLevelItems(tree)[1]>>
            /\ UNCHANGED <<phase, identity>>
    /\ UNCHANGED <<fs, roots, tree, walkLeft, frames, diffState, cur, evalResult>>

\* A variant in which the loop goes on after an exception.
CommitSwallow(how) ==
    /\ phase' = phase
    /\ commitState' = [commitState EXCEPT !.state = how]
    /\ queue' = IF pc = "walk" THEN Tail(queue) \o iterItems(tree, Head(queue)) ELSE queue
    /\ pc' = "walk"
    /\ cur' = 0
    /\ UNCHANGED identity

\* An exception leaves commit.
CommitAbort(how) ==
    /\ phase' = "idle"
    /\ commitState' = [commitState EXCEPT !.state = how]
    /\ queue' = <<>>
    /\ pc' = "walk"
    /\ cur' = 0
    /\ client' = ""
    /\ changelist' = ""

\* A variant that puts the rows of the popped item at the front.
PoppedDepthFirst == iterItems(tree, Head(queue)) \o Tail(queue)

\* walk() pops the next item and queues its rows.
Popped == Tail(queue) \o iterItems(tree, Head(queue))

AtItem == phase = "commit" /\ pc = "walk" /\ queue # <<>>

\* The item is no depot item, or its status is Unchanged: continue.
CommitSkip ==
    /\ AtItem
    /\ Operation(tree, Head(queue)) = "none"
    /\ queue' = Popped
    /\ UNCHANGED <<fs, roots, identity, tree, phase, walkLeft, frames, diffState,
                   pc, cur, events, commitState, prev, evalResult>>

\* status Edit: the file is opened for edit.
CommitEdit ==
    /\ AtItem
    /\ Operation(tree, Head(queue)) = "edit"
    /\ \E ok \in BOOLEAN :
          /\ events' = events \o <<Event("log", Head(queue), TRUE),
                                    Event("edit", Head(queue), ok)>>
          /\ IF ~BackendRaises(ok)
             THEN /\ queue' = Popped
                  /\ pc' = "edit_copy"
                  /\ cur' = Head(queue)
                  /\ UNCHANGED <<identity, phase, commitState>>
             ELSE CommitAbort("failed")
    /\ UNCHANGED <<fs, roots, tree, walkLeft, frames, diffState, prev,
                   evalResult>>

\* status Edit: the target file is copied over the source file.
CommitEditCopy ==
    /\ phase = "commit"
    /\ pc = "edit_copy"
    /\ LET r == Copy(fs, tree[cur].targetPath, tree[cur].sourcePath)
       IN /\ fs' = r.fs
          /\ events' = Append(events, Event("copy", cur, ~r.raised))
          /\ IF r.raised
             THEN CommitAbort("raised")
             ELSE pc' = "walk" /\ cur' = 0 /\ UNCHANGED <<identity, phase, commitState, queue>>
    /\ UNCHANGED <<roots, tree, walkLeft, frames, diffState, prev,
                   evalResult>>

\* A variant that goes from the directories straight to the backend call.
CommitAddCallFirst ==
    /\ AtItem
    /\ Operation(tree, Head(queue)) = "add"
    /\ cur' = Head(queue)
    /\ queue' = Popped
    /\ pc' = "add_call"
    /\ \E allowed \in BOOLEAN :
          LET directory == DirName(tree[Head(queue)].sourcePath)
              made == makeDirectories(fs, directory, allowed)
          IN /\ fs' = made
             /\ events' = events \o <<Event("log", Head(queue), TRUE),
                                       Event("makedirs", Head(queue),
                                             IsDir(made, directory) /\ ~IsDir(fs, directory))>>
    /\ UNCHANGED <<roots, identity, tree, phase, walkLeft, frames, diffState,
                   commitState, prev, evalResult>>

\* status Add: the directories of the source path are made.
CommitAddMakeDirs ==
    /\ AtItem
    /\ Operation(tree, Head(queue)) = "add"
    /\ cur' = Head(queue)
    /\ queue' = Popped
    /\ pc' = "add_copy"
    /\ \E allowed \in BOOLEAN :
          LET directory == DirName(tree[Head(queue)].sourcePath)
              made == makeDirectories(fs, directory, allowed)
          IN /\ fs' = made
             /\ events' = events \o <<Event("log", Head(queue), TRUE),
                                       Event("makedirs", Head(queue),
                                             IsDir(made, directory) /\ ~IsDir(fs, directory))>>
    /\ UNCHANGED <<roots, identity, tree, phase, walkLeft, frames, diffState,
                   commitState, prev, evalResult>>

\* status Add: the target file is copied to the source path.
CommitAddCopy ==
    /\ phase = "commit"
    /\ pc = "add_copy"
    /\ LET r == Copy(fs, tree[cur].targetPath, tree[cur].sourcePath)
       IN /\ fs' = r.fs
          /\ events' = Append(events, Event("copy", cur, ~r.raised))
          /\ IF r.raised
             THEN CommitAbort("raised")
             ELSE pc' = "add_call" /\ UNCHANGED <<identity, phase, commitState, queue, cur>>
    /\ UNCHANGED <<roots, tree, walkLeft, frames, diffState, prev,
                   evalResult>>

\* status Add: the source path is opened for add.
CommitAdd ==
    /\ phase = "commit"
    /\ pc = "add_call"
    /\ \E ok \in BOOLEAN :
          /\ events' = Append(events, Event("add", cur, ok))
          /\ IF ~BackendRaises(ok)
             THEN pc' = "walk" /\ cur' = 0 /\ UNCHANGED <<identity, phase, commitState, queue>>
             ELSE CommitAbort("failed")
    /\ UNCHANGED <<fs, roots, tree, walkLeft, frames, diffState, prev,
                   evalResult>>

\* status Delete: the source path is opened for delete.
CommitDelete ==
    /\ AtItem
    /\ Operation(tree, Head(queue)) = "delete"
    /\ \E ok \in BOOLEAN :
          /\ events' = events \o <<Event("log", Head(queue), TRUE),
                                    Event("delete", Head(queue), ok)>>
          /\ IF ~BackendRaises(ok)
             THEN /\ fs' = BackendDelete(fs, tree[Head(queue)].sourcePath)
                  /\ queue' = Popped
                  /\ UNCHANGED <<identity, phase, commitState, pc, cur>>
             ELSE CommitAbort("failed") /\ UNCHANGED fs
    /\ UNCHANGED <<roots, tree, walkLeft, frames, diffState, prev,
                   evalResult>>

\* walk() is exhausted: commit returns.
CommitFinish ==
    /\ phase = "commit"
    /\ pc = "walk"
    /\ queue = <<>>
    /\ phase' = "idle"
    /\ client' = ""
    /\ changelist' = ""
    /\ commitState' = [commitState EXCEPT !.state = "completed"]
    /\ UNCHANGED <<fs, roots, tree, walkLeft, frames, diffState, queue, pc,
                   cur, events, prev, evalResult>>

CommitNext ==
    \/ CommitRead
    \/ CommitReject
    \/ CommitBegin
    \/ CommitSkip
    \/ CommitEdit
    \/ CommitEditCopy
    \/ CommitAddMakeDirs
    \/ CommitAddCopy
    \/ CommitAdd
    \/ CommitDelete
    \/ CommitFinish

Next ==
    \/ CreateEntry
    \/ Show
    \/ DiffNext
    \/ CommitNext

Spec == Init /\ [][Next]_vars

-----------------------------------------------------------------------------
(* evaluateFileStatus on its own: a pair of paths is set up with every     *)
(* combination of absent, directory and file, and the status is evaluated. *)

\* The byte values the probe files are written with: NUL, control
\* characters (the ends of the stripped range, line feed, carriage return),
\* a space, a letter, and a byte that does not decode.
ProbeBytes == {0, 1, 10, 13, 31, 32, 120, 129}

ProbeContents == UNION {[1..n -> ProbeBytes] : n \in 0..MaxLen}

ProbeEntries == {DirEntry} \cup {FileEntry(c) : c \in ProbeContents}

ProbeSource == Join(SourceRoot, <<NameA>>)
ProbeTarget == Join(TargetRoot, <<NameA>>)

\* The two packages with at most the probe path in each.
ProbeFS(se, te) ==
    LET there == {SourceRoot, TargetRoot}
                 \cup (IF se = {} THEN {} ELSE {ProbeSource})
                 \cup (IF te = {} THEN {} ELSE {ProbeTarget})
    IN [p \in there |->
            IF p = ProbeSource THEN CHOOSE e \in se : TRUE
            ELSE IF p = ProbeTarget THEN CHOOSE e \in te : TRUE
            ELSE DirEntry]

EvalInit ==
    /\ \E se \in {{}} \cup {{e} : e \in ProbeEntries},
          te \in {{}} \cup {{e} : e \in ProbeEntries} : fs = ProbeFS(se, te)
    /\ sourceDirectory = SourceRoot
    /\ targetDirectory = TargetRoot
    /\ client = ""
    /\ changelist = ""
    /\ tree = <<>>
    /\ phase = "eval"
    /\ walkLeft = <<>>
    /\ frames = <<>>
    /\ diffState = "none"
    /\ queue = <<>>
    /\ pc = "walk"
    /\ cur = 0
    /\ events = <<>>
    /\ commitState = NoCommit
    /\ prev = NoPrev
    /\ evalResult = "none"

\* QDepotItem.evaluateFileStatus() is called on the pair: it reads, and
\* writes nothing.
Evaluate ==
    /\ phase = "eval"
    /\ evalResult = "none"
    /\ evalResult' = evaluateFileStatus(fs, ProbeSource, ProbeTarget)
    /\ UNCHANGED <<fs, roots, identity, tree, phase, walkLeft, frames, diffState,
                   queue, pc, cur, events, commitState, prev>>

EvalNext == Evaluate

EvalSpec == EvalInit /\ [][EvalNext]_vars

-----------------------------------------------------------------------------
(* Properties of evaluateFileStatus, checked under EvalSpec. *)

Statuses == {"Add", "Delete", "Unchanged", "Edit"}

Evaluated == phase = "eval" /\ evalResult # "none"

\* A file's bytes with every value 1..31 left out.
StripControls(bytes) == SelectSeq(bytes, LAMBDA b : b = 0 \/ b >= 32)

AllDecodable(bytes) == \A i \in 1..Len(bytes) : bytes[i] < 128

BothFiles == IsFile(fs, ProbeSource) /\ IsFile(fs, ProbeTarget)

\* C3: for every state of the two paths (absent, file or directory)
\* evaluateFileStatus returns one of the four statuses without raising: Add
\* when the source path is missing, Delete when it exists and the target is
\* missing, Unchanged or Edit when both exist.
C3_StatusTotal ==
    Evaluated =>
        /\ evalResult \in Statuses
        /\ ~Exists(fs, ProbeSource) => evalResult = "Add"
        /\ Exists(fs, ProbeSource) /\ ~Exists(fs, ProbeTarget) => evalResult = "Delete"
        /\ Exists(fs, ProbeSource) /\ Exists(fs, ProbeTarget)
               => evalResult \in {"Unchanged", "Edit"}

\* C4: two existing text files whose contents are equal once every
\* character U+0001..U+001F is removed from both are Unchanged; two whose
\* contents still differ after the removal (in a NUL or a space, say) are
\* Edit.
C4_ContentModuloControls ==
    Evaluated /\ BothFiles
    /\ AllDecodable(fs[ProbeSource].data) /\ AllDecodable(fs[ProbeTarget].data)
    => IF StripControls(fs[ProbeSource].data) = StripControls(fs[ProbeTarget].data)
       THEN evalResult = "Unchanged"
       ELSE evalResult = "Edit"

\* Two files with different bytes that differ in control characters only
\* were found Unchanged.
C4_Witness ==
    /\ Evaluated /\ BothFiles
    /\ fs[ProbeSource].data # fs[ProbeTarget].data
    /\ Len(StripControls(fs[ProbeSource].data)) > 0
    /\ evalResult = "Unchanged"

\* C5: when the source or the target file does not decode as text the
\* status is Edit and no error leaves the evaluation, even when the two
\* files hold the same bytes.
C5_UndecodableIsEdit ==
    Evaluated /\ BothFiles
    /\ ~(AllDecodable(fs[ProbeSource].data) /\ AllDecodable(fs[ProbeTarget].data))
    => evalResult = "Edit"

\* Two files with the same bytes, which do not decode, were found Edit.
C5_Witness ==
    /\ Evaluated /\ BothFiles
    /\ fs[ProbeSource].data = fs[ProbeTarget].data
    /\ ~AllDecodable(fs[ProbeSource].data)
    /\ evalResult = "Edit"

-----------------------------------------------------------------------------
(* Properties of diff and commit, checked under Spec. *)

\* The model is a finished diff of the disk as it is: no commit has walked
\* it since.
Diffed == diffState = "done" /\ commitState.runs = "none"

\* The model is a finished diff that replaced a finished diff on which one
\* commit ran, and that commit ended as said.
RediffedAfter(end) ==
    /\ Diffed
    /\ prev.diffState = "done"
    /\ prev.commit.runs = "once"
    /\ prev.commit.state = end

UnderTarget(p) == Len(p) > Len(targetDirectory) /\ SubSeq(p, 1, Len(targetDirectory)) = targetDirectory

\* Every file of the target package decodes as text.
TargetIsText ==
    \A p \in DOMAIN fs : UnderTarget(p) /\ IsFile(fs, p) => AllDecodable(fs[p].data)

AllUnchanged == \A i \in Files(tree) : tree[i].status = "Unchanged"

Unique(tr) ==
    \A i, j \in 1..Len(tr) : i # j => ItemPath(tr, i) # ItemPath(tr, j)

\* The relative paths of the items with their status.
Pairs(tr) == {<<ItemPath(tr, i), tr[i].status>> : i \in 1..Len(tr)}

\* A path that is a file (not compiled python) in both packages has one item.
SharedOnce ==
    \A r \in RelPaths :
        /\ IsFile(fs, Join(sourceDirectory, r)) /\ IsFile(fs, Join(targetDirectory, r))
        /\ ~EndsWith(PathStr(r), PycSuffix)
        => Cardinality({i \in Files(tree) : ItemPath(tree, i) = r}) = 1

\* The other order of the two calls gives the same paths and statuses.
SameOtherOrder ==
    LET other == DiffWalk(fs, <<targetDirectory, sourceDirectory>>)
    IN ~other.raised /\ Pairs(other.tree) = Pairs(tree)

\* No relative path is a file in one package and a directory in the other.
NoKindConflict ==
    \A r \in RelPaths :
        /\ ~(IsFile(fs, Join(sourceDirectory, r)) /\ IsDir(fs, Join(targetDirectory, r)))
        /\ ~(IsDir(fs, Join(sourceDirectory, r)) /\ IsFile(fs, Join(targetDirectory, r)))

BackendOps == {"edit", "add", "delete"}

\* commit is past its guard and has not returned.
Walking == phase = "commit" /\ pc # "guard"

\* C6: when commit is called with the workspace or the changelist empty it
\* returns at its guard: no item is walked, no backend call is made, no file
\* is copied and the model is as it was.
C6_CommitPrecondition ==
    [][(phase = "commit" /\ pc = "guard" /\ (client = "" \/ changelist = ""))
         => /\ phase' = "idle"
            /\ UNCHANGED <<fs, tree, queue, events, commitState>>]_vars

\* commit stands at its guard with a workspace and no changelist, on a
\* model that holds a file to add.
C6_Witness ==
    /\ phase = "commit" /\ pc = "guard"
    /\ client # "" /\ changelist = ""
    /\ diffState = "done"
    /\ \E i \in Files(tree) : tree[i].status = "Add"

\* The place of an item in walk()'s order.
WalkIndex(tr, i) == CHOOSE k \in 1..Len(walk(tr)) : walk(tr)[k] = i

\* The item whose backend call failed: the item of the last event.
FailedItem == events[Len(events)].item

\* What an applied operation leaves on the disk.
Applied(i) ==
    CASE tree[i].status \in {"Edit", "Add"} ->
             /\ IsFile(fs, tree[i].sourcePath) /\ IsFile(fs, tree[i].targetPath)
             /\ fs[tree[i].sourcePath].data = fs[tree[i].targetPath].data
      [] tree[i].status = "Delete" -> ~Exists(fs, tree[i].sourcePath)
      [] OTHER -> TRUE

CallFor(status) ==
    CASE status = "Edit" -> "edit"
      [] status = "Add" -> "add"
      [] status = "Delete" -> "delete"
      [] OTHER -> "none"

\* The item commit is working on.
Current == IF pc = "walk" THEN Head(queue) ELSE cur

\* C8: in one commit run every file gets at most one backend call, the one
\* of its status (none for Unchanged), and a completed run has made it for
\* every file; directories get none; files are copied and directories made
\* for Add and Edit files only, and the disk changes only while such a file
\* is worked on, but for the file a successful delete call removes.
C8_PerPathDispatch ==
    /\ [](/\ \A k \in 1..Len(events) :
                /\ tree[events[k].item].kind = "file"
                /\ events[k].op \in BackendOps
                       => events[k].op = CallFor(tree[events[k].item].status)
                /\ events[k].op = "copy" => tree[events[k].item].status \in {"Add", "Edit"}
                /\ events[k].op = "makedirs" => tree[events[k].item].status = "Add"
          /\ \A k, l \in 1..Len(events) :
                /\ k # l
                /\ events[k].op \in BackendOps /\ events[l].op \in BackendOps
                => ItemPath(tree, events[k].item) # ItemPath(tree, events[l].item)
          /\ commitState.state = "completed" =>
                \A i \in Files(tree) :
                    tree[i].status # "Unchanged" <=>
                        \E k \in 1..Len(events) :
                            events[k].item = i /\ events[k].op = CallFor(tree[i].status))
    /\ [][phase = "commit" /\ fs' # fs =>
             \/ tree[Current].status \in {"Add", "Edit"}
             \/ /\ tree[Current].status = "Delete"
                /\ fs' = Remove(fs, tree[Current].sourcePath)]_vars

\* A completed commit of a model with an Unchanged file and a file that
\* was added.
C8_Witness ==
    /\ commitState.state = "completed"
    /\ \E i, j \in Files(tree) :
          /\ tree[i].status = "Unchanged"
          /\ tree[j].status = "Add"
          /\ Outcome(tree, events, j) = "applied"

\* C9: when the source or the target is not a directory, diff returns at its
\* guard: the model is left as it is, no directory is listed and nothing is
\* read or written.
C9_DiffPrecondition ==
    [][(phase = "idle"
        /\ ~(IsDir(fs, sourceDirectory) /\ IsDir(fs, targetDirectory)))
         => /\ phase' # "diff"
            /\ UNCHANGED <<fs, tree, walkLeft, frames>>]_vars

\* diff was called with the target not a directory and returned; there is
\* no model.
C9_Witness ==
    /\ diffState = "rejected"
    /\ IsDir(fs, sourceDirectory) /\ ~IsDir(fs, targetDirectory)
    /\ tree = <<>>

\* C10: when a commit stops at its first failing backend call, a second diff
\* shows the paths still pending: a path whose operation was applied is
\* Unchanged or has no node, and a path whose operation was not completed,
\* the one whose call failed included, has a node whose status is not
\* Unchanged.
C10_RediffAfterPartial ==
    RediffedAfter("failed") =>
        \A e \in prev.plan :
            /\ e.outcome = "applied" =>
                  \A i \in Files(tree) :
                      ItemPath(tree, i) = e.path => tree[i].status = "Unchanged"
            /\ e.outcome \in {"failed", "pending"} /\ e.status # "Unchanged" =>
                  \E i \in Files(tree) :
                      ItemPath(tree, i) = e.path /\ tree[i].status # "Unchanged"

\* The step made a call of this kind (its event is the last one added).
Called(op) ==
    /\ Len(events') > Len(events)
    /\ events'[Len(events')].op = op

\* Event k of the run is for the same item as an earlier event of this kind.
Earlier(k, op) ==
    \E j \in 1..(k - 1) : events[j].item = events[k].item /\ events[j].op = op

\* C11: inside one file of a commit run, an Edit file is opened for edit
\* before it is overwritten (the disk is as it was when the edit call is
\* made, and the copy comes after a successful edit call); for an Add file
\* the directories are made, then the target's bytes are copied to the
\* source path, and then the add call is made, on a source file that holds
\* the target's bytes.
C11_StepOrder ==
    /\ [](\A k \in 1..Len(events) :
             /\ events[k].op = "copy" /\ tree[events[k].item].status = "Edit"
                    => \E j \in 1..(k - 1) :
                          /\ events[j].item = events[k].item
                          /\ events[j].op = "edit" /\ events[j].ok
             /\ events[k].op = "copy" /\ tree[events[k].item].status = "Add"
                    => Earlier(k, "makedirs") /\ ~Earlier(k, "add")
             /\ events[k].op = "add"
                    => /\ Earlier(k, "makedirs")
                       /\ \E j \in 1..(k - 1) :
                             /\ events[j].item = events[k].item
                             /\ events[j].op = "copy" /\ events[j].ok
                             /\ \E i \in 1..(j - 1) :
                                   /\ events[i].item = events[k].item
                                   /\ events[i].op = "makedirs")
    /\ [][Called("edit") =>
             /\ fs' = fs
             /\ \A j \in 1..Len(events) :
                   events[j].item = events'[Len(events')].item => events[j].op # "copy"]_vars
    /\ [][Called("add") =>
             /\ fs' = fs
             /\ IsFile(fs, tree[cur].sourcePath)
             /\ fs[tree[cur].sourcePath].data = fs[tree[cur].targetPath].data]_vars

\* A completed commit that applied an Edit and an Add.
C11_Witness ==
    /\ commitState.state = "completed"
    /\ \E i, j \in Files(tree) :
          /\ tree[i].status = "Edit" /\ Outcome(tree, events, i) = "applied"
          /\ tree[j].status = "Add" /\ Outcome(tree, events, j) = "applied"

\* The depth of an item: 0 for the top level item.
Depth(tr, i) == Len(ItemPath(tr, i))

RECURSIVE Flatten(_)
Flatten(seqs) == IF seqs = <<>> THEN <<>> ELSE Head(seqs) \o Flatten(Tail(seqs))

RECURSIVE Level(_, _)
\* The items of one depth: the rows of the items of the depth above, parent
\* by parent, each in row order.
Level(tr, d) ==
    IF d = 0 THEN topLevelItems(tr)
    ELSE LET above == Level(tr, d - 1)
         IN Flatten([k \in 1..Len(above) |-> iterItems(tr, above[k])])

\* The items level by level.
LevelOrder(tr) == Flatten([d \in 1..Len(tr) |-> Level(tr, d - 1)])

\* The place of every item in a sequence of the items.
Places(order) ==
    [i \in {order[k] : k \in 1..Len(order)} |->
        CHOOSE k \in 1..Len(order) : order[k] = i]

\* The item has an operation.
HasOperation(i) == tree[i].kind = "file" /\ tree[i].status # "Unchanged"

\* C12: commit goes through the tree breadth first: the queue is a run of
\* consecutive items of the level order, every item before it has been
\* visited (its operation, if it has one, has been started) and none twice,
\* so the calls of a file of depth d come before those of a file of depth
\* d + 1, and rows of one parent are taken in row order; the first item
\* visited is the top level item.
C12_BreadthFirst ==
    commitState.runs # "none" /\ tree # <<>> =>
      LET order == LevelOrder(tree)
          place == Places(order)
          depth == [i \in 1..Len(tree) |-> Depth(tree, i)]
      IN
        /\ Len(order) = Len(tree)
        /\ order[1] = topLevelItems(tree)[1]
        /\ \A k, l \in 1..Len(events) :
              k < l =>
                 /\ depth[events[k].item] <= depth[events[l].item]
                 /\ place[events[k].item] <= place[events[l].item]
                 /\ tree[events[k].item].parent = tree[events[l].item].parent
                        => events[k].item <= events[l].item
        /\ \A k, l \in 1..Len(events) :
              events[k].op = "log" /\ events[l].op = "log" /\ k # l
                 => events[k].item # events[l].item
        /\ Walking /\ commitState.state = "running" =>
              \E a \in 1..(Len(tree) + 1) :
                 /\ a + Len(queue) - 1 <= Len(tree)
                 /\ queue = SubSeq(order, a, a + Len(queue) - 1)
                 /\ queue # <<>> /\ a = 1 => Head(queue) = order[1]
                 /\ \A k \in 1..Len(events) : place[events[k].item] < a
                 /\ pc # "walk" => place[cur] = a - 1
                 /\ \A i \in 1..Len(tree) :
                       place[i] < a /\ HasOperation(i) =>
                           \E k \in 1..Len(events) : events[k].item = i
        /\ commitState.state = "completed" =>
              \A i \in 1..Len(tree) :
                  HasOperation(i) => \E k \in 1..Len(events) : events[k].item = i

\* A completed commit that applied the operation of a file in a
\* subdirectory and of a file of the package that comes after that
\* subdirectory in row order: depth first the calls would be the other way
\* round.
C12_Witness ==
    /\ commitState.state = "completed"
    /\ \E i, j \in Files(tree) :
          /\ Depth(tree, i) = 2 /\ Depth(tree, j) = 1
          /\ tree[i].parent < j
          /\ Outcome(tree, events, i) = "applied"
          /\ Outcome(tree, events, j) = "applied"

\* makeDirectories was called for the item and made nothing, not because
\* the directory was there: it is still missing.
MkdirRefused(i) ==
    /\ \E k \in 1..Len(events) :
          events[k].item = i /\ events[k].op = "makedirs" /\ ~events[k].ok
    /\ ~IsDir(fs, DirName(tree[i].sourcePath))

\* C13: when the directories of an Add file cannot be made, for another
\* reason than their being there, the failure is swallowed and the walk
\* goes on: no exception ends the commit.
C13_MkdirNeverFatal ==
    \A i \in Files(tree) : MkdirRefused(i) => commitState.state # "raised"

-----------------------------------------------------------------------------
(* diff on other pairs of packages: two directories side by side, one of   *)
(* which may have a name that begins with the name of the other.           *)

Pkg == <<"p", "k", "g">>
PkgNew == <<"p", "k", "g", "_", "n", "e", "w">>
Lib == <<"l", "i", "b">>

\* The pairs of source and target directory: different directories of one
\* parent directory.
RootPairs ==
    {pair \in {<<Pkg>>, <<PkgNew>>, <<Lib>>} \X {<<Pkg>>, <<PkgNew>>, <<Lib>>} :
        pair[1] # pair[2]}

RootsInit ==
    /\ \E pair \in RootPairs, tk \in {"dir", "absent"} :
          /\ sourceDirectory = pair[1]
          /\ targetDirectory = pair[2]
          /\ fs = [p \in {pair[1]} \cup (IF tk = "dir" THEN {pair[2]} ELSE {}) |-> DirEntry]
    /\ client = ""
    /\ changelist = ""
    /\ tree = <<>>
    /\ phase = "setup"
    /\ walkLeft = <<>>
    /\ frames = <<>>
    /\ diffState = "none"
    /\ queue = <<>>
    /\ pc = "walk"
    /\ cur = 0
    /\ events = <<>>
    /\ commitState = NoCommit
    /\ prev = NoPrev
    /\ evalResult = "none"

RootsNext ==
    \/ CreateEntry
    \/ Show
    \/ DiffNext

RootsSpec == RootsInit /\ [][RootsNext]_vars

\* The path is the directory or below it.
AtOrUnder(p, directory) ==
    Len(p) >= Len(directory) /\ SubSeq(p, 1, Len(directory)) = directory

\* C14: for two directories neither of which is inside the other (also when
\* the name of one begins with the name of the other, as pkg and pkg_new),
\* every path of the target package is made relative to the target
\* directory, and the source path and target path of every file item are the
\* source directory and the target directory joined with the item's relative
\* path.
C14_Classification ==
    diffState \in {"running", "done", "raised"} =>
        /\ \A p \in DOMAIN fs :
              AtOrUnder(p, targetDirectory)
                  => makePathRelative(p) = RelPath(p, targetDirectory)
        /\ \A i \in Files(tree) :
              /\ tree[i].sourcePath = Join(sourceDirectory, ItemPath(tree, i))
              /\ tree[i].targetPath = Join(targetDirectory, ItemPath(tree, i))

\* The tree a diff starts from: the top item of the source directory alone.
Fresh == tree = << DirectoryItem(BaseName(sourceDirectory), 0) >>

\* C15: every accepted diff builds the tree anew, so that nothing of the tree
\* it replaces is left when the directories are about to be read, and the
\* tree is discarded once commit has carried out the plan, so that a second
\* commit with no diff in between makes no backend call and copies no file.
C15_TreeLifecycle ==
    /\ phase = "diff" /\ walkLeft = <<sourceDirectory, targetDirectory>>
           => Fresh
    /\ commitState.runs = "again" => events = <<>>

====
